---- MODULE Spec2Model ----
(***************************************************************************)
(* State-machine model of src/main.py: the pipeline coordinator compute(), *)
(* its stages data_handling(), computing_mir_activity(),                   *)
(* mir_post_processing_spatial(), mir_post_processing_sc(), and the CLI    *)
(* entry point (absl flags + main).  Every call into utils.* is recorded   *)
(* in `calls`; every such call may raise.                                  *)
(***************************************************************************)
EXTENDS Integers, Sequences, FiniteSets, TLC

VARIABLES
    pc,            \* position in the running entry point
    entry,         \* which entry point was invoked
    args,          \* the arguments / flag values of the invocation
    results_path,  \* compute(): local results_path after lines 290-293
    data_type,     \* compute(): local data_type (line 296)
    dh_data_type,  \* data_handling(): parameter/local data_type
    pp,            \* postprocessor: its parameters (data_type is also a local)
    counts,        \* raw reads table
    counts_norm,   \* normalized reads table
    cpus,          \* computing_mir_activity(): local cpus after line 120
    miR_list,      \* resolved microRNA list (lines 123, 304)
    pvals,         \* miR_activity_pvals
    calls,         \* collaborator (utils.*) invocations, in order
    log,           \* logging.info / logging.debug markers, in order
    err            \* exception that left the entry point, "none" if none

vars == << pc, entry, args, results_path, data_type, dh_data_type, pp,
           counts, counts_norm, cpus, miR_list, pvals, calls, log, err >>

----------------------------------------------------------------------------
(* Bounds of the model *)

MaxCpus == 2
MaxCores == 2
MaxListLen == 1

----------------------------------------------------------------------------
(* Constants of the program *)

DATA_TYPE_SPATIAL == "spatial"
DATA_TYPE_SINGLE_CELL == "scRNAseq"
SPECIES_HOMO_SAPIENS == "homo_sapiens"
SUPPORTED_SPECIES == {"homo_sapiens", "mus_musculus"}
DRAW_TOP_10 == "top_10"
SUPPORTED_DRAW == {"top_10", "all", "custom"}

----------------------------------------------------------------------------
(* Values *)

\* Python strings that the code inspects are sequences of characters.
ResultsDir == << "r", "e", "s", "u", "l", "t", "s" >>
DataPaths == { << "/", "d" >>, << "d", "/" >> }
DatasetNames == { << "n" >>, << "/", "n" >> }
ResultsPathValues == { << >>, << "/", "o" >>, << "o", "/" >> }

\* Optional[str] results_path / data_path / dataset_name flag values.
NoneStr == [some |-> FALSE, val |-> << >>]
SomeStr(s) == [some |-> TRUE, val |-> s]

\* Optional[int] cpus.
NoneInt == [some |-> FALSE, val |-> 0]
SomeInt(n) == [some |-> TRUE, val |-> n]
CpusValues == {NoneInt} \cup { SomeInt(n) : n \in (0 - 1)..MaxCpus }

\* Optional[list] miR_list.
Mirs == {"m1", "m2"}
SeqsUpTo(S, n) == UNION { [1..k -> S] : k \in 0..n }
NoneList == [some |-> FALSE, val |-> << >>]
SomeList(l) == [some |-> TRUE, val |-> l]
MirListValues == {NoneList} \cup { SomeList(l) : l \in SeqsUpTo(Mirs, MaxListLen) }

\* Optional[str] data_type.  `interned` tells whether the str object is the
\* very object constants._DATA_TYPE_* names (what `is` / `is not` compare).
NoneType == [some |-> FALSE, val |-> "", interned |-> FALSE]
TypeObj(v, i) == [some |-> TRUE, val |-> v, interned |-> i]
SupportedTypes == {DATA_TYPE_SPATIAL, DATA_TYPE_SINGLE_CELL}
DataTypeArgs ==
    {NoneType, TypeObj("", FALSE)}
        \cup { TypeObj(v, i) : v \in SupportedTypes, i \in BOOLEAN }

\* Tables (pandas DataFrames) are told apart by what produced them.
NoMat == [kind |-> "none", loader |-> "none"]
RawMat(l) == [kind |-> "raw", loader |-> l]
Loaders == {"visium_loader", "scRNAseq_preprocess_loader", "scRNAseq_loader"}
RawMats == { RawMat(l) : l \in Loaders }

\* Python truthiness of the optional values the code tests.
TruthyStr(o) == o.some /\ o.val # << >>
TruthyInt(o) == o.some /\ o.val # 0
TruthyType(t) == t.some /\ t.val # ""

\* A recorded collaborator call: function, table argument, microRNA list
\* argument, results path argument, worker count argument.
Call(fn, mat, lst, path, n) ==
    [fn |-> fn, mat |-> mat, lst |-> lst, path |-> path, n |-> n]

----------------------------------------------------------------------------
(* Pure parts of the code *)

\* posixpath.join(a, b) as used on lines 291 and 293.
Join(a, b) ==
    IF b # << >> /\ Head(b) = "/" THEN b
    ELSE IF a = << >> \/ a[Len(a)] = "/" THEN a \o b
    ELSE a \o << "/" >> \o b

\* Fault variant: the explicit results path is used without the dataset name.
ResolveResultsPathNoName(rp, dp, name) ==
    IF TruthyStr(rp) THEN rp.val ELSE Join(dp, ResultsDir)

\* compute(), lines 290-293.
ResolveResultsPath(rp, dp, name) ==
    IF TruthyStr(rp) THEN Join(rp.val, name) ELSE Join(dp, ResultsDir)

\* Fault variant: no validator is registered for the species flag.
FlagsValidNoSpecies(a) ==
    /\ a.miR_figures \in SUPPORTED_DRAW
    /\ a.dataset_name.some
    /\ a.data_path.some

\* The flag validators and required-flag marks, lines 63-73.
FlagsValid(a) ==
    /\ a.species \in SUPPORTED_SPECIES
    /\ a.miR_figures \in SUPPORTED_DRAW
    /\ a.dataset_name.some
    /\ a.data_path.some

\* Fault variant: compute() does not hand the detected type to data_handling().
DataHandlingTypeArgOmitted(dt) == NoneType

\* compute(), line 301: the data_type argument of data_handling().
DataHandlingTypeArg(dt) == dt

\* data_handling(), line 90: `if not data_type`.
NeedsDetection(dt) == ~TruthyType(dt)

\* `data_type == constants._DATA_TYPE_SPATIAL`, lines 93 and 312.
IsSpatial(dt) == dt.some /\ dt.val = DATA_TYPE_SPATIAL

\* Fault variant: the preprocess flag is tested before the data type.
SelectLoaderPreprocessFirst(dt, preprocess) ==
    IF preprocess THEN "scRNAseq_preprocess_loader"
    ELSE IF dt.some /\ dt.val = DATA_TYPE_SPATIAL THEN "visium_loader"
    ELSE "scRNAseq_loader"

\* data_handling(), lines 93-99: which loader is called.
SelectLoader(dt, preprocess) ==
    IF IsSpatial(dt) THEN "visium_loader"
    ELSE IF preprocess THEN "scRNAseq_preprocess_loader"
    ELSE "scRNAseq_loader"

\* utils.normalize_counts: a new table derived from the one it is given.
Normalize(m) == [m EXCEPT !.kind = "norm"]

\* computing_mir_activity(), line 120: `cpus or mp.cpu_count()`.
WorkerCount(c, cores) == IF TruthyInt(c) THEN c.val ELSE cores

\* utils.mir_data_loading: the final list of microRNAs to score; the
\* allow-list filtered against the catalog, the whole catalog without one.
Catalog == << "m1" >>
InCatalog(m) == \E i \in 1..Len(Catalog) : Catalog[i] = m
MirDataLoading(l) == IF l.some THEN SelectSeq(l.val, InCatalog) ELSE Catalog

\* Fault variant: the scoring engine is handed the user's allow-list.
ScoringListArgUser(user, resolved) == user

\* computing_mir_activity(), line 131: the list handed to the scoring engine.
ScoringListArg(user, resolved) == resolved

\* computing_mir_activity(), line 138: the list returned to compute().
ReturnedList(user, resolved) == resolved

\* utils.compute_mir_activity: the p-value table of the table it scored.
Score(m) == [m EXCEPT !.kind = "pvals"]

\* Fault variant: the guard only rejects a missing data type.
IsNotAbsentOnly(dt, const) == ~dt.some

\* `data_type is not constants._DATA_TYPE_*`, lines 171 and 226: an identity
\* test; equal strings that are distinct objects are not identical.
IsNot(dt, const) == ~(dt.some /\ dt.val = const /\ dt.interned)

\* The parameters of a postprocessor invocation.
Frame(fn, dt, mat, pv, lst, path) ==
    [fn |-> fn, data_type |-> dt, mat |-> mat, pvals |-> pv, miR_list |-> lst,
     results_path |-> path]
NoFrame == Frame("none", NoneType, NoMat, NoMat, << >>, << >>)
POST_SPATIAL == "mir_post_processing_spatial"
POST_SC == "mir_post_processing_sc"

\* compute(), line 312: which postprocessor is invoked.
Dispatch(dt) == IF IsSpatial(dt) THEN POST_SPATIAL ELSE POST_SC

\* compute(), lines 313-322 and 324-333: the postprocessor's arguments.
SpatialFrame(dt, norm, raw, pv, lst, path) ==
    Frame(POST_SPATIAL, dt, norm, pv, lst, path)
\* Fault variant: the single-cell postprocessor is handed the normalized table.
ScFrameNormalized(dt, norm, raw, pv, lst, path) ==
    Frame(POST_SC, dt, norm, pv, lst, path)
ScFrame(dt, norm, raw, pv, lst, path) == Frame(POST_SC, dt, raw, pv, lst, path)

\* The first position of a postprocessor.
PostEntry(fn) == IF fn = POST_SPATIAL THEN "ps_detect" ELSE "sc_detect"

\* Fault variant: compute() goes from loading straight to postprocessing.
AfterDataHandlingSkipScoring == "sc_detect"

\* compute(), line 304: what follows the return of data_handling().
AfterDataHandling == "ma_cpus"

----------------------------------------------------------------------------
(* Invocations *)

InCompute == entry \in {"cli", "compute"}

DefaultArgs ==
    [data_path |-> NoneStr, dataset_name |-> NoneStr, results_path |-> NoneStr,
     miR_list |-> NoneList, cpus |-> NoneInt, species |-> SPECIES_HOMO_SAPIENS,
     miR_figures |-> DRAW_TOP_10, preprocess |-> FALSE, data_type |-> NoneType,
     mat |-> NoMat]

OptStr(S) == {NoneStr} \cup { SomeStr(s) : s \in S }

Init ==
    /\ pc = "idle"
    /\ entry = "none"
    /\ args = DefaultArgs
    /\ results_path = << >>
    /\ data_type = NoneType
    /\ dh_data_type = NoneType
    /\ pp = NoFrame
    /\ counts = NoMat
    /\ counts_norm = NoMat
    /\ cpus = 0
    /\ miR_list = << >>
    /\ pvals = NoMat
    /\ calls = << >>
    /\ log = << >>
    /\ err = "none"

Invoke(c) == calls' = Append(calls, c)
\* Fault variant: a failed collaborator call is caught and made again.
RaiseRetry(e) == pc' = pc /\ err' = err
Raise(e) == pc' = "raised" /\ err' = e
Info(m) == log' = Append(log, m)

\* `python main.py --flag=...`: app.run(main), line 351.
StartCli ==
    /\ pc = "idle"
    /\ \E dp \in OptStr(DataPaths), dn \in OptStr(DatasetNames),
          rp \in OptStr(ResultsPathValues), ml \in MirListValues,
          c \in CpusValues, sp \in SUPPORTED_SPECIES \cup {"danio_rerio"},
          fig \in {DRAW_TOP_10, "bottom_3"}, pre \in BOOLEAN :
          args' = [DefaultArgs EXCEPT !.data_path = dp, !.dataset_name = dn,
                      !.results_path = rp, !.miR_list = ml, !.cpus = c,
                      !.species = sp, !.miR_figures = fig, !.preprocess = pre]
    /\ entry' = "cli"
    /\ pc' = "flags"
    /\ UNCHANGED << results_path, data_type, dh_data_type, pp, counts,
                    counts_norm, cpus, miR_list, pvals, calls, log, err >>

\* absl parses the flags and runs the validators before main(), lines 63-73;
\* main() then calls compute() with the flag values, lines 336-348.
ParseFlags ==
    /\ pc = "flags"
    /\ IF FlagsValid(args)
          THEN pc' = "c_resolve" /\ err' = err
          ELSE pc' = "rejected" /\ err' = "IllegalFlagValueError"
    /\ UNCHANGED << entry, args, results_path, data_type, dh_data_type, pp,
                    counts, counts_norm, cpus, miR_list, pvals, calls, log >>

\* compute() called as a library function.
StartCompute ==
    /\ pc = "idle"
    /\ \E dp \in DataPaths, dn \in DatasetNames,
          rp \in OptStr(ResultsPathValues), ml \in MirListValues,
          c \in CpusValues, sp \in {SPECIES_HOMO_SAPIENS, "danio_rerio"},
          pre \in BOOLEAN :
          args' = [DefaultArgs EXCEPT !.data_path = SomeStr(dp),
                      !.dataset_name = SomeStr(dn), !.results_path = rp,
                      !.miR_list = ml, !.cpus = c, !.species = sp,
                      !.preprocess = pre]
    /\ entry' = "compute"
    /\ pc' = "c_resolve"
    /\ UNCHANGED << results_path, data_type, dh_data_type, pp, counts,
                    counts_norm, cpus, miR_list, pvals, calls, log, err >>

\* compute(), lines 281-294.
ComputeResolve ==
    /\ pc = "c_resolve"
    /\ results_path' = ResolveResultsPath(args.results_path, args.data_path.val,
                                          args.dataset_name.val)
    /\ log' = log \o << "Dataset name", "Path to dataset", "Results path" >>
    /\ pc' = "c_detect"
    /\ UNCHANGED << entry, args, data_type, dh_data_type, pp, counts,
                    counts_norm, cpus, miR_list, pvals, calls, err >>

\* What utils.check_data_type returns: one of the two supported types.
DetectedTypes == { TypeObj(v, i) : v \in SupportedTypes, i \in BOOLEAN }

\* compute(), lines 296-302: detection, then the call of data_handling().
ComputeDetect ==
    /\ pc = "c_detect"
    /\ Invoke(Call("check_data_type", NoMat, << >>, args.data_path.val, 0))
    /\ \/ /\ Raise("check_data_type")
          /\ UNCHANGED << data_type, dh_data_type >>
       \/ \E t \in DetectedTypes :
             /\ data_type' = t
             /\ dh_data_type' = DataHandlingTypeArg(t)
             /\ pc' = "dh_detect"
             /\ err' = err
    /\ UNCHANGED << entry, args, results_path, pp, counts, counts_norm, cpus,
                    miR_list, pvals, log >>

\* data_handling() called as a library function.
StartDataHandling ==
    /\ pc = "idle"
    /\ \E dp \in DataPaths, dn \in DatasetNames, t \in DataTypeArgs,
          pre \in BOOLEAN :
          /\ args' = [DefaultArgs EXCEPT !.data_path = SomeStr(dp),
                         !.dataset_name = SomeStr(dn), !.data_type = t,
                         !.preprocess = pre]
          /\ dh_data_type' = t
    /\ entry' = "data_handling"
    /\ pc' = "dh_detect"
    /\ UNCHANGED << results_path, data_type, pp, counts, counts_norm, cpus,
                    miR_list, pvals, calls, log, err >>

\* data_handling(), lines 90-91.
DhDetect ==
    /\ pc = "dh_detect"
    /\ IF NeedsDetection(dh_data_type)
          THEN /\ Invoke(Call("check_data_type", NoMat, << >>,
                              args.data_path.val, 0))
               /\ \/ Raise("check_data_type") /\ UNCHANGED dh_data_type
                  \/ /\ dh_data_type' \in DetectedTypes
                     /\ pc' = "dh_load"
                     /\ err' = err
          ELSE /\ pc' = "dh_load"
               /\ UNCHANGED << dh_data_type, calls, err >>
    /\ UNCHANGED << entry, args, results_path, data_type, pp, counts,
                    counts_norm, cpus, miR_list, pvals, log >>

\* data_handling(), lines 93-99.
DhLoad ==
    /\ pc = "dh_load"
    /\ LET loader == SelectLoader(dh_data_type, args.preprocess) IN
          /\ Invoke(Call(loader, NoMat, << >>, args.data_path.val, 0))
          /\ \/ Raise(loader) /\ UNCHANGED counts
             \/ /\ counts' = RawMat(loader)
                /\ pc' = "dh_norm"
                /\ err' = err
    /\ UNCHANGED << entry, args, results_path, data_type, dh_data_type, pp,
                    counts_norm, cpus, miR_list, pvals, log >>

\* data_handling(), lines 101-102, and the return to its caller.
DhNormalize ==
    /\ pc = "dh_norm"
    /\ Invoke(Call("normalize_counts", counts, << >>, << >>, 0))
    /\ \/ Raise("normalize_counts") /\ UNCHANGED counts_norm
       \/ /\ counts_norm' = Normalize(counts)
          /\ pc' = IF InCompute THEN AfterDataHandling ELSE "done"
          /\ err' = err
    /\ UNCHANGED << entry, args, results_path, data_type, dh_data_type, pp,
                    counts, cpus, miR_list, pvals, log >>

\* computing_mir_activity(), lines 120-121; mp.cpu_count() is at least 1.
MaCpus ==
    /\ pc = "ma_cpus"
    /\ \E cores \in 1..MaxCores : cpus' = WorkerCount(args.cpus, cores)
    /\ Info("Using cpus")
    /\ pc' = "ma_catalog"
    /\ UNCHANGED << entry, args, results_path, data_type, dh_data_type, pp,
                    counts, counts_norm, miR_list, pvals, calls, err >>

\* computing_mir_activity(), lines 123-126.
MaCatalog ==
    /\ pc = "ma_catalog"
    /\ Invoke(Call("mir_data_loading", NoMat, args.miR_list.val, << >>, 0))
    /\ \/ Raise("mir_data_loading") /\ UNCHANGED miR_list
       \/ /\ miR_list' = MirDataLoading(args.miR_list)
          /\ pc' = "ma_score"
          /\ err' = err
    /\ UNCHANGED << entry, args, results_path, data_type, dh_data_type, pp,
                    counts, counts_norm, cpus, pvals, log >>

\* computing_mir_activity(), lines 128-138, the return to compute() and
\* the dispatch of lines 312-333.
MaScore ==
    /\ pc = "ma_score"
    /\ Invoke(Call("compute_mir_activity", counts_norm,
                   ScoringListArg(args.miR_list.val, miR_list), results_path,
                   cpus))
    /\ \/ Raise("compute_mir_activity") /\ UNCHANGED << miR_list, pvals, pp, log >>
       \/ LET pv == Score(counts_norm)
              lst == ReturnedList(args.miR_list.val, miR_list) IN
             /\ pvals' = pv
             /\ miR_list' = lst
             /\ Info("Computation time")
             /\ pp' = IF Dispatch(data_type) = POST_SPATIAL
                         THEN SpatialFrame(data_type, counts_norm, counts, pv,
                                           lst, results_path)
                         ELSE ScFrame(data_type, counts_norm, counts, pv, lst,
                                      results_path)
             /\ pc' = PostEntry(Dispatch(data_type))
             /\ err' = err
    /\ UNCHANGED << entry, args, results_path, data_type, dh_data_type, counts,
                    counts_norm, cpus >>

\* The tables a caller may hand to a postprocessor.
PostMats == { RawMat("scRNAseq_loader"), Normalize(RawMat("visium_loader")) }

\* mir_post_processing_spatial() called as a library function.
StartPostSpatial ==
    /\ pc = "idle"
    /\ \E dp \in DataPaths, t \in DataTypeArgs, m \in PostMats,
          l \in SeqsUpTo(Mirs, MaxListLen) :
          /\ args' = [DefaultArgs EXCEPT !.data_path = SomeStr(dp),
                         !.dataset_name = SomeStr(<< "n" >>),
                         !.results_path = SomeStr(<< "/", "o" >>),
                         !.miR_list = SomeList(l), !.data_type = t, !.mat = m]
          /\ pp' = Frame(POST_SPATIAL, t, m, Score(m), l, << "/", "o" >>)
    /\ entry' = "post_spatial"
    /\ pc' = "ps_detect"
    /\ UNCHANGED << results_path, data_type, dh_data_type, counts, counts_norm,
                    cpus, miR_list, pvals, calls, log, err >>

\* mir_post_processing_sc() called as a library function.
StartPostSc ==
    /\ pc = "idle"
    /\ \E dp \in DataPaths, t \in DataTypeArgs, m \in PostMats,
          l \in SeqsUpTo(Mirs, MaxListLen) :
          /\ args' = [DefaultArgs EXCEPT !.data_path = SomeStr(dp),
                         !.dataset_name = SomeStr(<< "n" >>),
                         !.results_path = SomeStr(<< "/", "o" >>),
                         !.miR_list = SomeList(l), !.data_type = t, !.mat = m]
          /\ pp' = Frame(POST_SC, t, m, Score(m), l, << "/", "o" >>)
    /\ entry' = "post_sc"
    /\ pc' = "sc_detect"
    /\ UNCHANGED << results_path, data_type, dh_data_type, counts, counts_norm,
                    cpus, miR_list, pvals, calls, log, err >>

\* Lines 169-170 and 224-225: `if not data_type: data_type = check_data_type`.
PostDetect(here, next) ==
    /\ pc = here
    /\ IF NeedsDetection(pp.data_type)
          THEN /\ Invoke(Call("check_data_type", NoMat, << >>,
                              args.data_path.val, 0))
               /\ \/ Raise("check_data_type") /\ UNCHANGED pp
                  \/ \E t \in DetectedTypes :
                        /\ pp' = [pp EXCEPT !.data_type = t]
                        /\ pc' = next
                        /\ err' = err
          ELSE /\ pc' = next
               /\ UNCHANGED << pp, calls, err >>
    /\ UNCHANGED << entry, args, results_path, data_type, dh_data_type, counts,
                    counts_norm, cpus, miR_list, pvals, log >>

\* Lines 171-173 and 226-228: the type guard and the log line after it.
PostGuard(here, required, marker, next) ==
    /\ pc = here
    /\ IF IsNot(pp.data_type, required)
          THEN Raise("UsageError") /\ UNCHANGED log
          ELSE pc' = next /\ Info(marker) /\ err' = err
    /\ UNCHANGED << entry, args, results_path, data_type, dh_data_type, pp,
                    counts, counts_norm, cpus, miR_list, pvals, calls >>

\* One collaborator call of a postprocessor.
PostCall(here, c, next) ==
    /\ pc = here
    /\ Invoke(c)
    /\ \/ Raise(c.fn)
       \/ pc' = next /\ err' = err
    /\ UNCHANGED << entry, args, results_path, data_type, dh_data_type, pp,
                    counts, counts_norm, cpus, miR_list, pvals, log >>

\* Where a postprocessor returns to.
PostReturn == IF InCompute THEN "c_done" ELSE "done"

\* mir_post_processing_spatial(), lines 169-195.
PsDetect == PostDetect("ps_detect", "ps_guard")
PsGuard ==
    PostGuard("ps_guard", DATA_TYPE_SPATIAL, "Generating activity map figures",
              "ps_coors")
PsCoors ==
    PostCall("ps_coors",
             Call("get_spatial_coors", pp.mat, << >>, args.data_path.val, 0),
             "ps_sort")
PsSort ==
    PostCall("ps_sort",
             Call("sort_activity_spatial", pp.pvals, << >>, pp.results_path, 0),
             "ps_figlist")
PsFigList ==
    PostCall("ps_figlist",
             Call("get_figure_list", NoMat, pp.miR_list, << >>, 0), "ps_maps")
PsMaps ==
    PostCall("ps_maps",
             Call("produce_spatial_maps", pp.pvals, << >>, pp.results_path, 0),
             PostReturn)

\* mir_post_processing_sc(), lines 224-250.
ScDetect == PostDetect("sc_detect", "sc_guard")
ScGuard ==
    PostGuard("sc_guard", DATA_TYPE_SINGLE_CELL, "Single cell post processing",
              "sc_umap")
ScUmap ==
    PostCall("sc_umap", Call("generate_umap", pp.mat, << >>, << >>, 0),
             "sc_sort")
ScSort ==
    PostCall("sc_sort", Call("sort_activity_sc", pp.pvals, << >>, << >>, 0),
             "sc_figlist")
ScFigList ==
    PostCall("sc_figlist",
             Call("get_figure_list", NoMat, pp.miR_list, << >>, 0), "sc_plot")
ScPlot ==
    PostCall("sc_plot", Call("plot_sc", pp.pvals, << >>, pp.results_path, 0),
             PostReturn)

\* compute(), line 334.
ComputeDone ==
    /\ pc = "c_done"
    /\ Info("Done.")
    /\ pc' = "done"
    /\ UNCHANGED << entry, args, results_path, data_type, dh_data_type, pp,
                    counts, counts_norm, cpus, miR_list, pvals, calls, err >>

Next ==
    \/ StartCli \/ ParseFlags \/ StartCompute \/ ComputeResolve \/ ComputeDetect
    \/ StartDataHandling \/ DhDetect \/ DhLoad \/ DhNormalize
    \/ MaCpus \/ MaCatalog \/ MaScore
    \/ StartPostSpatial \/ PsDetect \/ PsGuard \/ PsCoors \/ PsSort
    \/ PsFigList \/ PsMaps
    \/ StartPostSc \/ ScDetect \/ ScGuard \/ ScUmap \/ ScSort \/ ScFigList
    \/ ScPlot
    \/ ComputeDone

Spec == Init /\ [][Next]_vars

----------------------------------------------------------------------------
(* Properties *)

CallIdx(F) == { i \in 1..Len(calls) : calls[i].fn \in F }
Count(f) == Cardinality(CallIdx({f}))
Logged(m) == \E i \in 1..Len(log) : log[i] = m

SpatialPcs == {"ps_detect", "ps_guard", "ps_coors", "ps_sort", "ps_figlist", "ps_maps"}
ScPcs == {"sc_detect", "sc_guard", "sc_umap", "sc_sort", "sc_figlist", "sc_plot"}
SpatialDownstream ==
    {"get_spatial_coors", "sort_activity_spatial", "produce_spatial_maps"}
ScDownstream == {"generate_umap", "sort_activity_sc", "plot_sc"}
PathWriters ==
    {"compute_mir_activity", "sort_activity_spatial", "produce_spatial_maps",
     "plot_sc"}

\* The final results path the run is to use: results_path/dataset_name when
\* a (non-empty) results path is given, data_path/results otherwise.
FinalPath ==
    IF args.results_path.some /\ args.results_path.val # << >>
       THEN Join(args.results_path.val, args.dataset_name.val)
       ELSE Join(args.data_path.val, ResultsDir)

\* C1: in compute() the final results path is results_path joined with
\* dataset_name when a results path is given and data_path joined with
\* 'results' otherwise; it is fixed before the first collaborator call and
\* it is the value the scoring engine and the postprocessor receive.
C1_ResultsPathResolved ==
    InCompute =>
        /\ calls # << >> => results_path = FinalPath
        /\ pc \in {"c_detect", "done"} => results_path = FinalPath
        /\ pp.fn # "none" => pp.results_path = FinalPath
        /\ \A i \in CallIdx(PathWriters) : calls[i].path = FinalPath

C1_Witness ==
    /\ entry = "cli"
    /\ pc = "done"
    /\ args.results_path = SomeStr(<< "/", "o" >>)
    /\ args.dataset_name = SomeStr(<< "n" >>)
    /\ results_path = << "/", "o", "/", "n" >>
    /\ \E i \in CallIdx({"compute_mir_activity"}) :
          calls[i].path = << "/", "o", "/", "n" >>
    /\ \E i \in CallIdx({"plot_sc"}) : calls[i].path = << "/", "o", "/", "n" >>

\* C2: a run of compute() that reaches postprocessing invokes exactly one
\* postprocessor: the spatial one with the normalized table when the data
\* type is spatial, the single-cell one with the raw table otherwise; the
\* other postprocessor is never entered.
C2_State ==
    InCompute /\ pp.fn # "none" =>
        /\ data_type.val = DATA_TYPE_SPATIAL =>
              /\ pp.fn = POST_SPATIAL
              /\ pp.mat = counts_norm /\ pp.mat.kind = "norm"
              /\ pc \notin ScPcs
              /\ CallIdx(ScDownstream) = {}
        /\ data_type.val # DATA_TYPE_SPATIAL =>
              /\ pp.fn = POST_SC
              /\ pp.mat = counts /\ pp.mat.kind = "raw"
              /\ pc \notin SpatialPcs
              /\ CallIdx(SpatialDownstream) = {}
C2_OnePostprocessor ==
    /\ [](C2_State /\ (InCompute /\ pc \in SpatialPcs \cup ScPcs => pp.fn # "none"))
    /\ [][pp.fn # "none" => pp'.fn = pp.fn /\ pp'.mat = pp.mat]_vars

C2_Witness ==
    /\ entry = "compute"
    /\ pc = "done"
    /\ data_type.val = DATA_TYPE_SPATIAL
    /\ pp.fn = POST_SPATIAL
    /\ pp.mat = Normalize(RawMat("visium_loader"))
    /\ \E i \in CallIdx({"get_spatial_coors"}) : calls[i].mat = counts_norm

\* C3: each postprocessor checks the data type it works with (the one it
\* received, or the detected one when none was received) before any other
\* work: with a single-cell type the spatial postprocessor, and with a
\* spatial type the single-cell postprocessor, raises UsageError at the
\* guard, and none of its downstream collaborators is ever called.
C3_State ==
    /\ pp.fn = POST_SPATIAL /\ pp.data_type.val = DATA_TYPE_SINGLE_CELL =>
          /\ pc \notin SpatialPcs \ {"ps_detect", "ps_guard"}
          /\ CallIdx(SpatialDownstream \cup {"get_figure_list"}) = {}
          /\ ~Logged("Generating activity map figures")
    /\ pp.fn = POST_SC /\ pp.data_type.val = DATA_TYPE_SPATIAL =>
          /\ pc \notin ScPcs \ {"sc_detect", "sc_guard"}
          /\ CallIdx(ScDownstream \cup {"get_figure_list"}) = {}
          /\ ~Logged("Single cell post processing")
C3_Step ==
    /\ pc = "ps_guard" /\ pp.data_type.val = DATA_TYPE_SINGLE_CELL =>
          pc' = "raised" /\ err' = "UsageError" /\ calls' = calls
    /\ pc = "sc_guard" /\ pp.data_type.val = DATA_TYPE_SPATIAL =>
          pc' = "raised" /\ err' = "UsageError" /\ calls' = calls
C3_TypeGuard == [](C3_State) /\ [][C3_Step]_vars

C3_Witness ==
    /\ entry = "post_spatial"
    /\ args.data_type = NoneType
    /\ pp.data_type.val = DATA_TYPE_SINGLE_CELL
    /\ Count("check_data_type") = 1
    /\ pc = "raised"
    /\ err = "UsageError"

\* C4: in a run of compute() the data type is detected exactly once; the
\* stored value is the one data_handling() selects the loader with, the one
\* the dispatch tests and the one the invoked postprocessor guards on, and
\* neither data_handling() nor a postprocessor detects again.
C4_State ==
    InCompute =>
        /\ Count("check_data_type") <= 1
        /\ data_type.some =>
              /\ data_type.val \in SupportedTypes
              /\ Count("check_data_type") = 1
              /\ dh_data_type = data_type
              /\ \A i \in CallIdx(Loaders) :
                    calls[i].fn = "visium_loader"
                        <=> data_type.val = DATA_TYPE_SPATIAL
              /\ pp.fn # "none" =>
                    /\ pp.data_type = data_type
                    /\ pp.fn = POST_SPATIAL <=> data_type.val = DATA_TYPE_SPATIAL
C4_DetectedOnce ==
    /\ [](C4_State)
    /\ [][InCompute /\ data_type.some => data_type' = data_type]_vars

C4_Witness ==
    /\ entry = "compute"
    /\ pc = "done"
    /\ Count("check_data_type") = 1
    /\ data_type.val = DATA_TYPE_SINGLE_CELL
    /\ pp.data_type = data_type
    /\ Count("scRNAseq_loader") = 1
    /\ Count("plot_sc") = 1

\* C5: compute() runs its stages in the order load and normalize, catalog
\* resolution and scoring, postprocessing: the scoring engine is called
\* only after the normalized table was returned, a postprocessor is entered
\* only after the scoring engine returned the p-value table, and 'Done.' is
\* logged only after the postprocessor returned.
C5_StageOrder ==
    InCompute =>
        /\ \A i \in CallIdx({"mir_data_loading", "compute_mir_activity"}) :
              /\ counts_norm.kind = "norm"
              /\ \E j \in CallIdx({"normalize_counts"}) : j < i
              /\ \E j \in CallIdx(Loaders) : j < i
        /\ \A i \in CallIdx({"compute_mir_activity"}) :
              /\ calls[i].mat = counts_norm
              /\ \E j \in CallIdx({"mir_data_loading"}) : j < i
        /\ pc \in SpatialPcs \cup ScPcs \/ pp.fn # "none" =>
              /\ pvals.kind = "pvals"
              /\ Count("compute_mir_activity") = 1
        /\ \A i \in CallIdx(SpatialDownstream \cup ScDownstream
                                \cup {"get_figure_list"}) :
              \E j \in CallIdx({"compute_mir_activity"}) : j < i
        /\ Logged("Done.") =>
              /\ pc = "done"
              /\ err = "none"
              /\ calls[Len(calls)].fn \in {"produce_spatial_maps", "plot_sc"}

C5_Witness ==
    /\ entry = "cli"
    /\ pc = "done"
    /\ Logged("Done.")
    /\ [i \in 1..Len(calls) |-> calls[i].fn] =
          << "check_data_type", "scRNAseq_preprocess_loader", "normalize_counts",
             "mir_data_loading", "compute_mir_activity", "generate_umap",
             "sort_activity_sc", "get_figure_list", "plot_sc" >>

\* C6: when a collaborator call made during compute() fails, the failure
\* leaves compute() as it is: the failed call is the last call of the run,
\* no collaborator is called twice, nothing runs after the failure and
\* 'Done.' is not logged.
AllCollaborators ==
    Loaders \cup SpatialDownstream \cup ScDownstream
        \cup {"check_data_type", "normalize_counts", "mir_data_loading",
              "compute_mir_activity", "get_figure_list"}
C6_State ==
    InCompute =>
        /\ \A f \in AllCollaborators : Count(f) <= 1
        /\ err \in AllCollaborators =>
              /\ pc = "raised"
              /\ calls[Len(calls)].fn = err
              /\ ~Logged("Done.")
        /\ pc = "raised" => err # "none"
C6_FailurePropagates ==
    /\ [](C6_State)
    /\ [][InCompute /\ pc = "raised" => UNCHANGED vars]_vars

C6_Witness ==
    /\ entry = "compute"
    /\ pc = "raised"
    /\ err = "compute_mir_activity"
    /\ Len(calls) = 5
    /\ calls[5].fn = "compute_mir_activity"
    /\ ~Logged("Done.")

\* C7: for every cpus input the worker count handed to the scoring engine
\* is a positive integer; it is the number of available processing units
\* when cpus is absent and the given cpus otherwise.
C7_WorkerCountPositive ==
    \A i \in CallIdx({"compute_mir_activity"}) :
        /\ calls[i].n > 0
        /\ args.cpus.some => calls[i].n = args.cpus.val
        /\ ~args.cpus.some => calls[i].n \in 1..MaxCores

\* C8: started through the CLI with an unsupported species or an unsupported
\* miR_figures mode, the run is rejected before compute() starts: no
\* collaborator is called and nothing is logged.
C8_InvalidFlagsRejected ==
    entry = "cli" /\ (args.species \notin SUPPORTED_SPECIES
                        \/ args.miR_figures \notin SUPPORTED_DRAW) =>
        /\ pc \in {"flags", "rejected"}
        /\ calls = << >>
        /\ log = << >>
        /\ results_path = << >>
        /\ pc = "rejected" => err = "IllegalFlagValueError"

C8_Witness ==
    /\ entry = "cli"
    /\ pc = "rejected"
    /\ args.species = "danio_rerio"
    /\ args.miR_figures = DRAW_TOP_10
    /\ args.data_path.some /\ args.dataset_name.some
    /\ calls = << >>

\* C9: data_handling() calls exactly one loader: the spatial loader for
\* spatial data whatever the preprocess flag, the merge-and-subsample loader
\* for other data when preprocess is true and the plain single-cell loader
\* when it is false; the loaded table is normalized once and the normalized
\* and the raw table are both returned.
C9_LoaderSelection ==
    /\ Cardinality(CallIdx(Loaders)) <= 1
    /\ \A i \in CallIdx(Loaders) :
          /\ dh_data_type.val = DATA_TYPE_SPATIAL =>
                calls[i].fn = "visium_loader"
          /\ dh_data_type.val # DATA_TYPE_SPATIAL /\ args.preprocess =>
                calls[i].fn = "scRNAseq_preprocess_loader"
          /\ dh_data_type.val # DATA_TYPE_SPATIAL /\ ~args.preprocess =>
                calls[i].fn = "scRNAseq_loader"
    /\ Count("normalize_counts") <= 1
    /\ \A i \in CallIdx({"normalize_counts"}) :
          /\ calls[i].mat = counts
          /\ counts.kind = "raw"
          /\ Count(counts.loader) = 1
    /\ counts_norm # NoMat =>
          /\ Count("normalize_counts") = 1
          /\ Cardinality(CallIdx(Loaders)) = 1
          /\ counts_norm = [kind |-> "norm", loader |-> counts.loader]
    /\ entry = "data_handling" /\ pc = "done" =>
          counts_norm.kind = "norm" /\ counts.kind = "raw"

C9_Witness ==
    /\ entry = "data_handling"
    /\ pc = "done"
    /\ args.preprocess
    /\ dh_data_type.val = DATA_TYPE_SPATIAL
    /\ [i \in 1..Len(calls) |-> calls[i].fn] = << "visium_loader", "normalize_counts" >>
    /\ counts = RawMat("visium_loader")
    /\ counts_norm = [kind |-> "norm", loader |-> "visium_loader"]

\* C10: in compute() the microRNA list handed to the scoring engine and the
\* list handed to the invoked postprocessor are both the list the catalog
\* resolver returned, not the user's allow-list.
Resolved ==
    IF args.miR_list.some
       THEN SelectSeq(args.miR_list.val, LAMBDA m : m = "m1")
       ELSE << "m1" >>
C10_ResolvedListShared ==
    InCompute =>
        /\ \A i \in CallIdx({"compute_mir_activity", "get_figure_list"}) :
              calls[i].lst = Resolved
        /\ pp.fn # "none" => pp.miR_list = Resolved /\ miR_list = Resolved

C10_Witness ==
    /\ entry = "compute"
    /\ pc = "done"
    /\ args.miR_list = SomeList(<< "m2" >>)
    /\ \E i \in CallIdx({"compute_mir_activity"}) : calls[i].lst = << >>
    /\ \E i \in CallIdx({"get_figure_list"}) : calls[i].lst = << >>

====
